---- MODULE Spec2Model ----
(***************************************************************************)
(* Quantum-GNSS guard: the Monte Carlo orchestrator (Simulator), the       *)
(* hybrid detector, the spoofing injector, the NMEA rewriter and the       *)
(* coincidence extraction of the quantum channel.                          *)
(*                                                                         *)
(* Number model.  The program computes in IEEE doubles.  Here              *)
(*   - a time difference (dt) is an integer number of picoseconds;         *)
(*   - a GNSS timestamp is a pair [ms, ps] (whole milliseconds plus a      *)
(*     picosecond offset): seconds-scale values do not fit one integer;    *)
(*   - a probability is an integer number of millionths, a Hellinger       *)
(*     distance an integer number of thousandths, a score an integer       *)
(*     number of ten-thousandths (ScoreOne = 1.0);                         *)
(*   - a double that may be NaN is a record [nan, v]; comparisons with     *)
(*     NaN are false and arithmetic on NaN gives NaN, as in IEEE.          *)
(* Rounding of the last bits of a double is not modelled.                  *)
(***************************************************************************)
EXTENDS Integers, Sequences, FiniteSets, TLC

VARIABLES
    \* Simulator.run
    pc, cfg, passes, run_idx, pass_idx, att_idx, results, unit,
    \* Detector object
    vae, fitted, det_in, det_call,
    \* GNSSSpoof.apply_spoof
    sp_cfg, sp_in, sp_draw, sp_out,
    \* GNSSSpoof.generate_nmea_spoofed
    nm_delta, nm_in, nm_out,
    \* QuantumChannel.compute_coincidences
    co_events, co_sorted, co_out,
    \* QuantumTimeTransfer: the sync-event table, simulate_decoherence
    qt_events, qt_call, dc_in, dc_out,
    \* utils.hellinger_distance
    hd_in, hd_out

simVars   == <<pc, cfg, passes, run_idx, pass_idx, att_idx, results, unit>>
detVars   == <<vae, fitted, det_in, det_call>>
spoofVars == <<sp_cfg, sp_in, sp_draw, sp_out>>
nmeaVars  == <<nm_delta, nm_in, nm_out>>
coincVars == <<co_events, co_sorted, co_out>>
qttVars   == <<qt_events, qt_call, dc_in, dc_out>>
utilVars  == <<hd_in, hd_out>>
vars      == <<simVars, detVars, spoofVars, nmeaVars, coincVars, qttVars, utilVars>>

----------------------------------------------------------------------------
(* Doubles *)

NaN == [nan |-> TRUE, v |-> 0]
Num(x) == [nan |-> FALSE, v |-> x]
IsNum(x) == ~x.nan

ScoreOne == 100 * 100
ScoreHalf == ScoreOne \div 2

\* x > y on doubles: false when either side is NaN
FGt(x, y) == IsNum(x) /\ IsNum(y) /\ x.v > y.v
FGe(x, y) == IsNum(x) /\ IsNum(y) /\ x.v >= y.v
\* 0.7 * a + 0.3 * b
Mix73(a, b) == IF a.nan \/ b.nan THEN NaN ELSE Num((7 * a.v + 3 * b.v) \div 10)
InUnit(x) == FGe(x, Num(0)) /\ FGe(Num(ScoreOne), x)

RECURSIVE SqrtSearch(_, _, _)
SqrtSearch(n, lo, hi) ==
    IF lo >= hi THEN lo
    ELSE LET mid == (lo + hi + 1) \div 2
         IN  IF mid * mid <= n THEN SqrtSearch(n, mid, hi)
             ELSE SqrtSearch(n, lo, mid - 1)

\* floor of the square root, for n < 2048 * 2048
ISqrt(n) == SqrtSearch(n, 0, IF n < 2048 THEN n ELSE 2048)

Million == 1000 * 1000

----------------------------------------------------------------------------
(* utils.py *)

\* range_ns = (-5, 5), in picoseconds
HistRange == <<-5 * 1000, 5 * 1000>>
\* Detector(coincidence_bins = 100)
Bins == 100

InRange(x) == HistRange[1] <= x /\ x <= HistRange[2]
\* np.histogram: equal-width bins, the last one closed on the right
BinOf(x) ==
    IF x = HistRange[2] THEN Bins
    ELSE ((x - HistRange[1]) * Bins) \div (HistRange[2] - HistRange[1]) + 1

\* (edges, counts) of np.histogram(dt, bins, range): an array of `bins` counts,
\* kept as the map from the occupied bins to their counts (every other bin
\* holds 0); samples outside the range are dropped
coincidence_histogram(dt, bins) ==
    LET inside == {i \in DOMAIN dt : InRange(dt[i])}
    IN  [bins |-> bins,
         counts |-> [b \in {BinOf(dt[i]) : i \in inside} |->
                       Cardinality({i \in inside : BinOf(dt[i]) = b})]]

RECURSIVE SumOver(_, _)
SumOver(f, S) ==
    IF S = {} THEN 0
    ELSE LET x == CHOOSE y \in S : TRUE IN f[x] + SumOver(f, S \ {x})

\* np.sum of an array kept as a map
SumArray(m) == SumOver(m, DOMAIN m)
At(m, b) == IF b \in DOMAIN m THEN m[b] ELSE 0

\* hist / np.sum(hist), in millionths: 0/0 is NaN in every bin
Normalize(hist) ==
    LET total == SumArray(hist.counts)
    IN  IF total = 0 THEN [bins |-> hist.bins, nan |-> TRUE, p |-> hist.counts]
        ELSE [bins |-> hist.bins, nan |-> FALSE,
              p |-> [b \in DOMAIN hist.counts |-> (hist.counts[b] * Million) \div total]]

\* The length of an elementwise result of two arrays of lengths n and m
\* (numpy broadcasting: an array of length 1 is stretched), -1 when the
\* operands cannot be broadcast together
BroadcastLen(n, m) ==
    IF n = m THEN n ELSE IF n = 1 THEN m ELSE IF m = 1 THEN n ELSE -1
\* element b of array a in an elementwise operation
Stretched(a, b) == IF a.bins = 1 THEN At(a.p, 1) ELSE At(a.p, b)

\* A gap that takes the root of one side only
RootGapOneSided(x, y) == ISqrt(x) - y \div 1000
\* np.sqrt(p) - np.sqrt(q) for one element, in thousandths
RootGap(x, y) == ISqrt(x) - ISqrt(y)

\* np.sqrt(np.sum((np.sqrt(p) - np.sqrt(q))**2)) / np.sqrt(2), in thousandths:
\* a value, or the ValueError of the subtraction
hellinger_distance(p, q) ==
    LET n == BroadcastLen(p.bins, q.bins)
        idx == IF p.bins = q.bins THEN DOMAIN p.p \cup DOMAIN q.p ELSE 1..n
        sq == [b \in idx |-> LET d == RootGap(Stretched(p, b), Stretched(q, b))
                             IN  d * d]
    IN  IF n < 0
        THEN [raised |-> "ValueError: operands could not be broadcast together",
              value |-> NaN]
        ELSE IF n = 0 THEN [raised |-> "none", value |-> Num(0)]
        ELSE IF p.nan \/ q.nan THEN [raised |-> "none", value |-> NaN]
        ELSE [raised |-> "none",
              value |-> Num((ISqrt(SumArray(sq)) * 1000) \div ISqrt(2 * Million))]

\* np.array(values), values in millionths
Array(values) ==
    [bins |-> Len(values), nan |-> FALSE,
     p |-> [b \in {i \in 1..Len(values) : values[i] # 0} |-> values[b]]]

MaxVec == 2

\* Elements of the arrays handed to hellinger_distance, in millionths
ProbValues == {0, 250 * 1000, 500 * 1000, 750 * 1000, Million}
Arrays == {Array(v) : v \in UNION {[1..n -> ProbValues] : n \in 0..MaxVec}}

UtilIdle == hd_in = <<>> /\ hd_out = <<>>

InitUtil ==
    /\ hd_in \in [p : Arrays, q : Arrays]
    /\ hd_out = <<>>

HellingerCall ==
    /\ hd_out' = <<hellinger_distance(hd_in.p, hd_in.q)>>
    /\ UNCHANGED <<hd_in, simVars, detVars, spoofVars, nmeaVars, coincVars, qttVars>>

NextUtil == HellingerCall

----------------------------------------------------------------------------
(* detector.py *)

\* self.threshold = 0.1, in thousandths
Threshold == 100

\* 1 / (1 + exp(-z)) for z = -1.0, -0.9, ..., 9.0, in ten-thousandths (floor)
SigmoidTable ==
    <<2689, 2890, 3100, 3318, 3543, 3775, 4013, 4255, 4501, 4750,
      5000, 5249, 5498, 5744, 5986, 6224, 6456, 6681, 6899, 7109,
      7310, 7502, 7685, 7858, 8021, 8175, 8320, 8455, 8581, 8698,
      8807, 8909, 9002, 9088, 9168, 9241, 9308, 9370, 9426, 9478,
      9525, 9568, 9608, 9644, 9677, 9706, 9734, 9758, 9781, 9801,
      9820, 9836, 9852, 9866, 9878, 9890, 9900, 9909, 9918, 9926,
      9933, 9939, 9945, 9950, 9955, 9959, 9963, 9966, 9969, 9972,
      9975, 9977, 9979, 9981, 9983, 9984, 9986, 9987, 9988, 9989,
      9990, 9991, 9992, 9993, 9993, 9994, 9994, 9995, 9995, 9996,
      9996, 9996, 9997, 9997, 9997, 9997, 9998, 9998, 9998, 9998, 9998>>

\* 1 / (1 + np.exp(-10 * (d_h - self.threshold))); d_h in [0, 1] or NaN.
\* z = 10 * (d_h - threshold) is (d - Threshold) hundredths; the table is
\* interpolated linearly between its points.
Sigmoid(d) ==
    IF d.nan THEN NaN
    ELSE LET zc == d.v - Threshold + 100
             k  == zc \div 10
             r  == zc % 10
         IN  IF k >= 100 THEN Num(SigmoidTable[101])
             ELSE Num(SigmoidTable[k + 1]
                      + ((SigmoidTable[k + 2] - SigmoidTable[k + 1]) * r) \div 10)

classical_detect(dt_true, dt_spoof) ==
    LET hist_true  == Normalize(coincidence_histogram(dt_true, Bins))
        hist_spoof == Normalize(coincidence_histogram(dt_spoof, Bins))
    IN  Sigmoid(hellinger_distance(hist_true, hist_spoof).value)

\* The values a standard normal draw takes here, in tenths of sigma
ZValues == {-24, 0}

\* np.random.normal(0, sigma, n), sigma in picoseconds: the vectors of n draws
\* that repeat one value or alternate between two (every vector, for n <= 2)
NormalDraws(sigma_ps, n) ==
    {[i \in 1..n |-> ((IF i % 2 = 1 THEN a ELSE b) * sigma_ps) \div 10] :
        a \in ZValues, b \in ZValues}

\* legit_dt = np.random.normal(0, 50e-12, len(dt))
LegitSigmaPs == 50

\* The outputs of self.vae.predict taken here: the same value in every bin,
\* 0.0, 0.5 or 1.0 (the decoder ends in a sigmoid), in halves
PredictValues == {0, 1, 2}

\* np.mean((histogram - reconstructed)**2), in ten-thousandths; an empty bin
\* contributes the square of the prediction
MeanSqErr(hist, c2) ==
    LET sq == [b \in DOMAIN hist.counts |->
                 (2 * hist.counts[b] - c2) * (2 * hist.counts[b] - c2)]
        empty == hist.bins - Cardinality(DOMAIN hist.counts)
    IN  Num(((SumArray(sq) + empty * c2 * c2) * (ScoreOne \div 4)) \div hist.bins)

\* ml_detect: the guard is on self.vae being None
MlNotReady(v) == v = "None"

\* Detector.ml_detect(histogram) with the prediction c2: a raise or a value
ml_detect(v, hist, c2) ==
    IF MlNotReady(v) THEN [raised |-> "ValueError: VAE not trained", value |-> NaN]
    ELSE [raised |-> "none", value |-> MeanSqErr(hist, c2)]

\* Detector.detect(dt, use_ml) with the reference draw legit_dt and prediction c2
detect(v, dt, use_ml, legit_dt, c2) ==
    LET classical_score == classical_detect(legit_dt, dt)
        ml == ml_detect(v, coincidence_histogram(dt, Bins), c2)
        combined_score == IF use_ml THEN Mix73(classical_score, ml.value)
                          ELSE classical_score
    IN  IF use_ml /\ ml.raised # "none"
        THEN [raised |-> ml.raised]
        ELSE [raised |-> "none",
              classical_score |-> classical_score,
              ml_score |-> IF use_ml THEN <<ml.value>> ELSE <<>>,
              combined_score |-> combined_score,
              decision |-> FGt(combined_score, Num(ScoreHalf))]

----------------------------------------------------------------------------
(* The Detector object: calls in any order on one instance *)

MaxSample == 2

\* Samples handed to the detector, in picoseconds: around 0 (legitimate),
\* shifted by 1 ns, on the upper edge of the histogram range, shifted by 10 ns
DtValues == {0, 1000, 5000, 10000}

SamplesOver(vals, n) == UNION {[1..k -> vals] : k \in 1..n}

detOthers == <<simVars, spoofVars, nmeaVars, coincVars, qttVars, utilVars>>

DetIdle == vae = "None" /\ fitted = FALSE /\ det_in = <<>> /\ det_call = [op |-> "init"]

\* Detector(): no model; fitted records that a train_vae call has completed
InitDetector ==
    /\ vae = "None"
    /\ fitted = FALSE
    /\ det_in \in [dt_true : UNION {NormalDraws(LegitSigmaPs, k) : k \in 1..MaxSample},
                   dt : SamplesOver(DtValues, MaxSample)]
    /\ det_call = [op |-> "init"]

build_vae ==
    /\ vae' = "built"
    /\ det_call' = [op |-> "build_vae"]
    /\ UNCHANGED <<fitted, det_in, detOthers>>

\* train_vae builds the model when there is none, then fits it
train_vae ==
    /\ vae' = "trained"
    /\ fitted' = TRUE
    /\ det_call' = [op |-> "train_vae", built_here |-> (vae = "None")]
    /\ UNCHANGED <<det_in, detOthers>>

ClassicalDetectCall ==
    /\ det_call' = [op |-> "classical_detect",
                    score |-> classical_detect(det_in.dt_true, det_in.dt)]
    /\ UNCHANGED <<vae, fitted, det_in, detOthers>>

\* the prediction is drawn only when predict is reached
PredictDraws(v, use_ml) == IF use_ml /\ ~MlNotReady(v) THEN PredictValues ELSE {0}

MlDetectCall ==
    \E c2 \in PredictDraws(vae, TRUE) :
        /\ det_call' = [op |-> "ml_detect", vae_was |-> vae,
                        out |-> ml_detect(vae, coincidence_histogram(det_in.dt, Bins), c2)]
        /\ UNCHANGED <<vae, fitted, det_in, detOthers>>

DetectCall ==
    \E use_ml \in BOOLEAN, legit_dt \in NormalDraws(LegitSigmaPs, Len(det_in.dt)) :
      \E c2 \in PredictDraws(vae, use_ml) :
        /\ det_call' = [op |-> "detect", use_ml |-> use_ml,
                        out |-> detect(vae, det_in.dt, use_ml, legit_dt, c2)]
        /\ UNCHANGED <<vae, fitted, det_in, detOthers>>

NextDetector ==
    \/ build_vae
    \/ train_vae
    \/ ClassicalDetectCall
    \/ MlDetectCall
    \/ DetectCall


----------------------------------------------------------------------------
(* gnss_spoof.py: GNSSSpoof.apply_spoof *)

\* dict.get(key, default)
Get(d, key, default) == IF key \in DOMAIN d THEN d[key] ELSE default

\* GNSSSpoof.__init__: spoof_rate in hundredths, the other fields as configured
GNSSSpoof(config) ==
    [attack_type |-> Get(config, "attack_type", "time-push"),
     delta_ns    |-> Get(config, "delta_ns", 10),
     noise_ps    |-> Get(config, "noise_ps", 5),
     spoof_rate  |-> Get(config, "spoof_rate", 50)]

\* The values np.random.random() takes here, in hundredths: it draws from [0, 1)
UniformValues == {0, 50, 99}

UniformDraws(n) ==
    {[i \in 1..n |-> IF i % 2 = 1 THEN a ELSE b] : a \in UniformValues, b \in UniformValues}

\* np.random.uniform(low, high) for the draw w of np.random.random()
Uniform(low, high, w) == low + ((high - low) * w) \div 100

\* A GNSS timestamp [ms, ps] moved by d picoseconds
AddPs(t, d) == [t EXCEPT !.ps = @ + d]

\* A mask that leaves out a sample whose draw is within 0.01 of the rate
SpoofMaskBelowByOne(self, u) == [i \in DOMAIN u |-> u[i] + 1 < self.spoof_rate]
\* spoof_mask = np.random.random(n) < self.spoof_rate
SpoofMask(self, u) == [i \in DOMAIN u |-> u[i] < self.spoof_rate]
NSelected(mask) == Cardinality({i \in DOMAIN mask : mask[i]})
\* the position of sample i among the selected ones
Rank(mask, i) == Cardinality({j \in 1..i : mask[j]})

\* What the branch of the attack type draws: noise for the selected samples
\* (np.random.normal(0, noise_ps * 1e-12, np.sum(spoof_mask))) and one offset
SpoofNoiseDraws(self, k) ==
    IF self.attack_type \in {"time-push", "hybrid"}
    THEN NormalDraws(self.noise_ps, k) ELSE {<<>>}
SpoofOffsetDraws(self) ==
    IF self.attack_type \in {"replica", "hybrid"} THEN UniformValues ELSE {0}

\* The shift of a selected GNSS sample, and of the selected dt sample i
\* A shift that treats every other attack type as a time-push
GnssShiftOfAnyType(self, w) ==
    CASE self.attack_type = "time-push" -> self.delta_ns * 1000
      [] self.attack_type = "replica"   -> Uniform(-100 * 1000, 100 * 1000, w)
      [] self.attack_type = "hybrid"    ->
            self.delta_ns * 1000 + Uniform(-50 * 1000, 50 * 1000, w)
      [] OTHER -> self.delta_ns * 1000
GnssShift(self, w) ==
    CASE self.attack_type = "time-push" -> self.delta_ns * 1000
      [] self.attack_type = "replica"   -> Uniform(-100 * 1000, 100 * 1000, w)
      [] self.attack_type = "hybrid"    ->
            self.delta_ns * 1000 + Uniform(-50 * 1000, 50 * 1000, w)
      [] OTHER -> 0
\* A replica branch that draws a new offset for each dt sample
DtShiftPerSample(self, mask, noise, w, i) ==
    CASE self.attack_type = "time-push" -> self.delta_ns * 1000 + noise[Rank(mask, i)]
      [] self.attack_type = "replica"   -> Uniform(-100 * 1000, 100 * 1000, (w + 50 * (i - 1)) % 100)
      [] self.attack_type = "hybrid"    ->
            self.delta_ns * 1000 + Uniform(-50 * 1000, 50 * 1000, w)
            + noise[Rank(mask, i)]
      [] OTHER -> 0
DtShift(self, mask, noise, w, i) ==
    CASE self.attack_type = "time-push" -> self.delta_ns * 1000 + noise[Rank(mask, i)]
      [] self.attack_type = "replica"   -> Uniform(-100 * 1000, 100 * 1000, w)
      [] self.attack_type = "hybrid"    ->
            self.delta_ns * 1000 + Uniform(-50 * 1000, 50 * 1000, w)
            + noise[Rank(mask, i)]
      [] OTHER -> 0

\* apply_spoof(gnss_times, quantum_dt) for the mask and the draws noise and w
\* (offset); the two inputs have the same length, as in every caller
apply_spoof(self, gnss_times, quantum_dt, mask, noise, w) ==
        [spoofed_gnss |->
            [i \in DOMAIN gnss_times |->
                IF mask[i] THEN AddPs(gnss_times[i], GnssShift(self, w))
                ELSE gnss_times[i]],
         spoofed_dt |->
            [i \in DOMAIN quantum_dt |->
                IF mask[i] THEN quantum_dt[i] + DtShift(self, mask, noise, w, i)
                ELSE quantum_dt[i]]]

MaxSpoofN == 2

\* Attack configurations: a dict with any of the keys
SpoofConfigs ==
    {[attack_type |-> "time-push", delta_ns |-> 10, spoof_rate |-> 100],
     [attack_type |-> "time-push"],
     [attack_type |-> "time-push", delta_ns |-> 1, noise_ps |-> 50, spoof_rate |-> 100],
     [delta_ns |-> 1, spoof_rate |-> 100],
     [attack_type |-> "replica", spoof_rate |-> 100],
     [attack_type |-> "replica"],
     [attack_type |-> "hybrid", spoof_rate |-> 0],
     [attack_type |-> "hybrid"],
     [attack_type |-> "none", spoof_rate |-> 100],
     [attack_type |-> "meaconing", spoof_rate |-> 100]}

GnssValues == {[ms |-> 0, ps |-> 0], [ms |-> 1000, ps |-> 0], [ms |-> 2000, ps |-> 0]}

SpoofIdle == sp_cfg = <<>> /\ sp_in = <<>> /\ sp_draw = <<>> /\ sp_out = <<>>

InitSpoof ==
    /\ sp_cfg \in SpoofConfigs
    /\ \E n \in 0..MaxSpoofN :
          sp_in \in [gnss_times : [1..n -> GnssValues], quantum_dt : [1..n -> {0, 150}]]
    /\ sp_draw = <<>>
    /\ sp_out = <<>>

ApplySpoofCall ==
    LET self == GNSSSpoof(sp_cfg)
    IN  \E u \in UniformDraws(Len(sp_in.gnss_times)), w \in SpoofOffsetDraws(self) :
          \E noise \in SpoofNoiseDraws(self, NSelected(SpoofMask(self, u))) :
            /\ sp_draw' = [u |-> u, noise |-> noise, w |-> w]
            /\ sp_out' = apply_spoof(self, sp_in.gnss_times, sp_in.quantum_dt,
                                     SpoofMask(self, u), noise, w)
            /\ UNCHANGED <<sp_cfg, sp_in, simVars, detVars, nmeaVars, coincVars, qttVars, utilVars>>

NextSpoof == ApplySpoofCall


----------------------------------------------------------------------------
(* gnss_spoof.py: GNSSSpoof.generate_nmea_spoofed.  A sentence is a string, *)
(* here the sequence of its characters.                                     *)

Digits == <<"0", "1", "2", "3", "4", "5", "6", "7", "8", "9">>
IsDigit(c) == \E i \in 1..10 : Digits[i] = c
DigitVal(c) == (CHOOSE i \in 1..10 : Digits[i] = c) - 1

\* int(s) for a two-character string: surrounding white space is stripped and a
\* sign is accepted; anything else that is not two digits raises ValueError
PyInt2(s) ==
    CASE IsDigit(s[1]) /\ IsDigit(s[2]) ->
            [ok |-> TRUE, v |-> 10 * DigitVal(s[1]) + DigitVal(s[2])]
      [] s[1] = " " /\ IsDigit(s[2]) -> [ok |-> TRUE, v |-> DigitVal(s[2])]
      [] IsDigit(s[1]) /\ s[2] = " " -> [ok |-> TRUE, v |-> DigitVal(s[1])]
      [] s[1] = "+" /\ IsDigit(s[2]) -> [ok |-> TRUE, v |-> DigitVal(s[2])]
      [] s[1] = "-" /\ IsDigit(s[2]) -> [ok |-> TRUE, v |-> 0 - DigitVal(s[2])]
      [] OTHER -> [ok |-> FALSE, v |-> 0]

RECURSIVE Decimal(_)
Decimal(v) ==
    IF v < 10 THEN <<Digits[v + 1]>>
    ELSE Decimal(v \div 10) \o <<Digits[(v % 10) + 1]>>

\* f"{v:02d}"
Format02d(v) ==
    IF v < 0 THEN <<"-">> \o Decimal(0 - v)
    ELSE IF v < 10 THEN <<"0">> \o Decimal(v)
    ELSE Decimal(v)

RECURSIVE SplitFrom(_, _, _)
SplitFrom(s, i, cur) ==
    IF i > Len(s) THEN <<cur>>
    ELSE IF s[i] = "," THEN <<cur>> \o SplitFrom(s, i + 1, <<>>)
    ELSE SplitFrom(s, i + 1, Append(cur, s[i]))

\* sentence.split(',')
Split(s) == SplitFrom(s, 1, <<>>)

RECURSIVE Join(_)
\* ','.join(parts)
Join(parts) ==
    IF Len(parts) = 0 THEN <<>>
    ELSE IF Len(parts) = 1 THEN parts[1]
    ELSE parts[1] \o <<",">> \o Join(Tail(parts))

StartsWith(s, prefix) ==
    Len(s) >= Len(prefix) /\ \A i \in 1..Len(prefix) : s[i] = prefix[i]

GPGGA == <<"$", "G", "P", "G", "G", "A">>

Billion == 1000 * Million

\* spoofed_secs = total_secs + self.delta_ns * 1e-9, kept as whole seconds and
\* a fraction in [0, 1): floor division and the remainders by 3600 and 60 of
\* the sum are those of its whole part
SpoofedWholeSecs(total_secs, delta_ns) == total_secs + (delta_ns \div Billion)

\* the f-string of the three fields
SpoofedTime(total_secs, delta_ns) ==
    LET w == SpoofedWholeSecs(total_secs, delta_ns)
    IN  Format02d(w \div 3600) \o Format02d((w % 3600) \div 60) \o Format02d(w % 60)

\* One iteration of the loop: the sentence appended, or the ValueError of int()
SpoofSentence(delta_ns, sentence) ==
    IF ~StartsWith(sentence, GPGGA) THEN [raised |-> FALSE, sentence |-> sentence]
    ELSE LET parts == Split(sentence)
         IN  IF ~(Len(parts) > 1) \/ Len(parts[2]) # 6
             THEN [raised |-> FALSE, sentence |-> sentence]
             ELSE LET time_str == parts[2]
                      hours == PyInt2(SubSeq(time_str, 1, 2))
                      mins  == PyInt2(SubSeq(time_str, 3, 4))
                      secs  == PyInt2(SubSeq(time_str, 5, 6))
                      total_secs == hours.v * 3600 + mins.v * 60 + secs.v
                  IN  IF ~(hours.ok /\ mins.ok /\ secs.ok)
                      THEN [raised |-> TRUE, sentence |-> sentence]
                      ELSE [raised |-> FALSE,
                            sentence |-> Join([parts EXCEPT
                                ![2] = SpoofedTime(total_secs, delta_ns)])]

RECURSIVE NmeaLoop(_, _, _)
NmeaLoop(delta_ns, original_nmea, spoofed) ==
    IF Len(spoofed) = Len(original_nmea) THEN [raised |-> FALSE, spoofed |-> spoofed]
    ELSE LET r == SpoofSentence(delta_ns, original_nmea[Len(spoofed) + 1])
         IN  IF r.raised THEN [raised |-> TRUE, spoofed |-> spoofed]
             ELSE NmeaLoop(delta_ns, original_nmea, Append(spoofed, r.sentence))

\* generate_nmea_spoofed(original_nmea): the list returned, or raised
generate_nmea_spoofed(delta_ns, original_nmea) == NmeaLoop(delta_ns, original_nmea, <<>>)

MaxSentences == 2

\* Time fields: HHMMSS, 23:59:59, not normalised, a letter, blanks, short, with decimals
TimeFields ==
    {<<"1", "2", "3", "4", "5", "6">>,
     <<"2", "3", "5", "9", "5", "9">>,
     <<"1", "2", "6", "0", "9", "9">>,
     <<"1", "2", "a", "4", "5", "6">>,
     <<" ", "1", " ", "2", " ", "3">>,
     <<"1", "2", "3", "4">>,
     <<"1", "2", "3", "4", "5", "6", ".", "0">>}

RestOfSentence == <<"4", "0", ".", "0", ",", "N">>

NmeaSentences ==
    {GPGGA, <<"$", "G", "P", "R", "M", "C">> \o <<",">> \o <<"1", "2", "3", "4", "5", "6">>}
    \cup {GPGGA \o <<",">> \o t \o <<",">> \o RestOfSentence : t \in TimeFields}

\* delta_ns: 1 and 10 ns, half a second, one second, two seconds and a bit
DeltaNsValues == {1, 10, 500 * Million, Billion, 2 * Billion + 7}

NmeaIdle == nm_delta = 0 /\ nm_in = <<>> /\ nm_out = <<>>

InitNmea ==
    /\ nm_delta \in DeltaNsValues
    /\ nm_in \in UNION {[1..k -> NmeaSentences] : k \in 0..MaxSentences}
    /\ nm_out = <<>>

NmeaCall ==
    /\ nm_out' = <<generate_nmea_spoofed(nm_delta, nm_in)>>
    /\ UNCHANGED <<nm_delta, nm_in, simVars, detVars, spoofVars, coincVars,
                 qttVars, utilVars>>

NextNmea == NmeaCall


----------------------------------------------------------------------------
(* quantum_channel.py: QuantumChannel.compute_coincidences.  An event table *)
(* is a DataFrame: has_columns is false for pd.DataFrame([]), which has no  *)
(* 'time' column; rows are records [time, detector], times in picoseconds.  *)

\* window_ps = 200
WindowPs == 200

IsPermutation(p, n) == \A i \in 1..n : \E j \in 1..n : p[j] = i

\* events.sort_values('time'): the sort is not stable, so rows of equal time
\* come out in either order
SortedOrders(rows) ==
    {[k \in 1..Len(rows) |-> rows[p[k]]] :
        p \in {q \in [1..Len(rows) -> 1..Len(rows)] :
                  /\ IsPermutation(q, Len(rows))
                  /\ \A a \in 1..Len(rows), b \in 1..Len(rows) :
                        a < b => rows[q[a]].time <= rows[q[b]].time}}

RECURSIVE InnerScanExclusive(_, _, _, _, _)
\* An inner loop that leaves at the first coincidence of event i
InnerScanExclusive(ev, i, j, window, dt_list) ==
    IF j <= Len(ev) /\ ev[j].time - ev[i].time <= window
    THEN IF ev[i].detector # ev[j].detector
         THEN Append(dt_list, ev[j].time - ev[i].time)
         ELSE InnerScanExclusive(ev, i, j + 1, window, dt_list)
    ELSE dt_list

RECURSIVE InnerScanAnyDetector(_, _, _, _, _)
\* An inner loop that does not compare the detectors
InnerScanAnyDetector(ev, i, j, window, dt_list) ==
    IF j <= Len(ev) /\ ev[j].time - ev[i].time <= window
    THEN InnerScanAnyDetector(ev, i, j + 1, window,
                              Append(dt_list, ev[j].time - ev[i].time))
    ELSE dt_list

RECURSIVE InnerScan(_, _, _, _, _)
\* while j < len(times) and times[j] - times[i] <= window_s
InnerScan(ev, i, j, window, dt_list) ==
    IF j <= Len(ev) /\ ev[j].time - ev[i].time <= window
    THEN InnerScan(ev, i, j + 1, window,
                   IF ev[i].detector # ev[j].detector
                   THEN Append(dt_list, ev[j].time - ev[i].time)
                   ELSE dt_list)
    ELSE dt_list

RECURSIVE OuterScan(_, _, _, _)
\* while i < len(times) - 1
OuterScan(ev, i, window, dt_list) ==
    IF i < Len(ev)
    THEN OuterScan(ev, i + 1, window, InnerScan(ev, i, i + 1, window, dt_list))
    ELSE dt_list

\* The scan over the sorted rows
ScanSorted(ev, window) == OuterScan(ev, 1, window, <<>>)

\* compute_coincidences(events, window_ps) for the order `sorted` the sort gave
compute_coincidences(events, sorted, window) ==
    IF ~events.has_columns THEN [raised |-> "KeyError: 'time'", dt |-> <<>>]
    ELSE [raised |-> "none", dt |-> ScanSorted(sorted, window)]

MaxEvents == 3

EventValues == [time : {0, 100, 200, 300}, detector : {1, 2}]

EventTables ==
    {[has_columns |-> FALSE, rows |-> <<>>]}
    \cup [has_columns : {TRUE}, rows : UNION {[1..k -> EventValues] : k \in 0..MaxEvents}]

CoincIdle == co_events = <<>> /\ co_sorted = <<>> /\ co_out = <<>>

InitCoinc ==
    /\ co_events \in EventTables
    /\ co_sorted = <<>>
    /\ co_out = <<>>

ComputeCoincidencesCall ==
    \E sorted \in SortedOrders(co_events.rows) :
        /\ co_sorted' = sorted
        /\ co_out' = <<compute_coincidences(co_events, sorted, WindowPs)>>
        /\ UNCHANGED <<co_events, simVars, detVars, spoofVars, nmeaVars, qttVars, utilVars>>

NextCoinc == ComputeCoincidencesCall

----------------------------------------------------------------------------
(* quantum_channel.py: generate_pairs; qtt.py: the sync channel *)

\* poisson_arrivals(rate, duration): no arrival, or one at time `at`
ArrivalDraws(at) == {<<>>, <<at>>}

\* gaussian_jitter of the two photons of a pair: detector_jitter_ps = 50
JitterSigmaPs == 50

\* The events of one created pair at time t: lost on the link
\* (np.random.random() >= survival_prob), or each photon detected or not
\* (np.random.random() < self.qe) with its own jitter
PairEvents(t) ==
    {<<>>}
    \cup {(IF a THEN <<[time |-> t + j[1], detector |-> 1]>> ELSE <<>>)
          \o (IF b THEN <<[time |-> t + j[2], detector |-> 2]>> ELSE <<>>) :
            a \in BOOLEAN, b \in BOOLEAN, j \in NormalDraws(JitterSigmaPs, 2)}

\* Dark counts: np.random.choice([1, 2]) for each arrival
DarkEvents(t) == {<<[time |-> t, detector |-> det]>> : det \in {1, 2}}

\* The event lists generate_pairs can build: pair events, then dark counts
GeneratedEventLists ==
    {pe \o de :
        pe \in UNION {IF c = <<>> THEN {<<>>} ELSE PairEvents(c[1]) :
                        c \in ArrivalDraws(1000)},
        de \in UNION {IF c = <<>> THEN {<<>>} ELSE DarkEvents(c[1]) :
                        c \in ArrivalDraws(5000)}}

\* pd.DataFrame(events).sort_values('time'): KeyError for an empty list (the
\* frame has no 'time' column), else the table in one of its sorted orders
generate_pairs ==
    UNION {IF ev = <<>> THEN {[raised |-> "KeyError: 'time'", table |-> <<>>]}
           ELSE {[raised |-> "none", table |-> [has_columns |-> TRUE, rows |-> sorted]] :
                    sorted \in SortedOrders(ev)} :
              ev \in GeneratedEventLists}

\* The values a sync_error takes here, in units of 1e-10 s
SyncErrorValues == {0, 1, 3}

\* generate_sync_pulses: n_pulses = int(duration * self.sync_rate) rows, sync_rate
\* in pulses per 1000 s; the sync_error column of the table, the errors of
\* the odd rows taken as 0
SyncErrorDraws(duration, sync_rate) ==
    LET n_pulses == (duration * sync_rate) \div 1000
    IN  {[i \in 1..n_pulses |-> IF i % 2 = 1 THEN 0 ELSE b] : b \in SyncErrorValues}

\* pd.DataFrame(events): a table of rows [pulse_time, sync_error]; built from
\* an empty list it has no columns
SyncTable(times, errors) ==
    [has_columns |-> Len(errors) > 0,
     rows |-> [i \in 1..Len(errors) |-> [pulse_time |-> times[i], sync_error |-> errors[i]]]]

\* generate_sync_pulses(duration, gnss_times): the tables it can return, the
\* sorted pulse times kept as 1, 2, ...
generate_sync_pulses(duration, sync_rate) ==
    {SyncTable([i \in 1..Len(e) |-> i], e) : e \in SyncErrorDraws(duration, sync_rate)}

RECURSIVE SumSq(_, _)
SumSq(e, n) == IF n = 0 THEN 0 ELSE e[n] * e[n] + SumSq(e, n - 1)
RECURSIVE SumLin(_, _)
SumLin(e, n) == IF n = 0 THEN 0 ELSE e[n] + SumLin(e, n - 1)

\* sync_events['sync_error'].values
ErrorsOf(sync_events) ==
    [i \in 1..Len(sync_events.rows) |-> sync_events.rows[i].sync_error]
\* sync_events['pulse_time'].values
TimesOf(sync_events) ==
    [i \in 1..Len(sync_events.rows) |-> sync_events.rows[i].pulse_time]

\* With N errors e and S their sum, V = N * sum(e^2) - S^2: mean = S / N and
\* std^2 = V / N^2
SumOfErrors(e) == SumLin(e, Len(e))
SpreadOfErrors(e) == Len(e) * SumSq(e, Len(e)) - SumOfErrors(e) * SumOfErrors(e)

\* np.abs(sync_errors - mean_error) > 3 * std_error, both sides times N, squared
Outliers(e) ==
    {i \in 1..Len(e) :
        (Len(e) * e[i] - SumOfErrors(e)) * (Len(e) * e[i] - SumOfErrors(e))
            > 9 * SpreadOfErrors(e)}

\* chi2_stat = np.sum((sync_errors - mean_error)**2) / (std_error**2 + 1e-20),
\* in ten-thousandths: the sum is V / N and 1e-20 s^2 is one unit squared, so
\* chi2_stat = V * N / (V + N^2)
\* A statistic that divides by the variance alone: N when the errors differ
Chi2StatUnregularised(e) ==
    IF SpreadOfErrors(e) = 0 THEN Num(0) ELSE Num(Len(e) * ScoreOne)
Chi2Stat(e) ==
    Num((SpreadOfErrors(e) * Len(e) * ScoreOne) \div (SpreadOfErrors(e) + Len(e) * Len(e)))

\* A score that is chi2_stat itself, not chi2_stat / N
AnomalyScoreOfChi2(e) ==
    IF FGt(Chi2Stat(e), Num(ScoreOne)) THEN Num(ScoreOne) ELSE Chi2Stat(e)
\* anomaly_score = min(1.0, chi2_stat / len(sync_errors))
AnomalyScore(e) ==
    LET chi2_over_n == Num(Chi2Stat(e).v \div Len(e))
    IN  IF FGt(chi2_over_n, Num(ScoreOne)) THEN Num(ScoreOne) ELSE chi2_over_n

\* The results when the table has columns and no row: np.mean and np.std of an
\* empty array are NaN, chi2_stat / 0 is NaN, and min(1.0, NaN) is 1.0
EmptySyncResults ==
    [raised |-> "none", mean_error_ps |-> NaN, std_error_ps |-> NaN,
     n_outliers |-> 0, outlier_fraction |-> NaN, chi2_statistic |-> NaN,
     anomaly_score |-> Num(ScoreOne), detection |-> TRUE]

\* A detection that compares the spread of the errors with the threshold
detect_sync_anomalies_by_threshold(sync_events, threshold_ps) ==
    IF ~sync_events.has_columns THEN [raised |-> "KeyError: 'sync_error'"]
    ELSE IF Len(sync_events.rows) = 0 THEN EmptySyncResults
    ELSE LET sync_errors == ErrorsOf(sync_events)
             N == Len(sync_errors)
         IN  [raised |-> "none",
              mean_error_ps |-> Num((100 * SumOfErrors(sync_errors)) \div N),
              std_error_ps |-> Num(ISqrt(100 * 100 * SpreadOfErrors(sync_errors)) \div N),
              n_outliers |-> Cardinality(Outliers(sync_errors)),
              outlier_fraction |-> Num((Cardinality(Outliers(sync_errors)) * ScoreOne) \div N),
              chi2_statistic |-> Chi2Stat(sync_errors),
              anomaly_score |-> AnomalyScore(sync_errors),
              detection |-> ISqrt(100 * 100 * SpreadOfErrors(sync_errors)) \div N > threshold_ps]

\* detect_sync_anomalies(sync_events, threshold_ps): threshold is computed from
\* threshold_ps and not used.  Errors are in units of 1e-10 s, the two _ps
\* results in picoseconds, the fraction and the scores in ten-thousandths.
detect_sync_anomalies(sync_events, threshold_ps) ==
    IF ~sync_events.has_columns THEN [raised |-> "KeyError: 'sync_error'"]
    ELSE IF Len(sync_events.rows) = 0 THEN EmptySyncResults
    ELSE LET threshold == threshold_ps
             sync_errors == ErrorsOf(sync_events)
             N == Len(sync_errors)
             anomaly_score == AnomalyScore(sync_errors)
         IN  [raised |-> "none",
              mean_error_ps |-> Num((100 * SumOfErrors(sync_errors)) \div N),
              std_error_ps |-> Num(ISqrt(100 * 100 * SpreadOfErrors(sync_errors)) \div N),
              n_outliers |-> Cardinality(Outliers(sync_errors)),
              outlier_fraction |-> Num((Cardinality(Outliers(sync_errors)) * ScoreOne) \div N),
              chi2_statistic |-> Chi2Stat(sync_errors),
              anomaly_score |-> anomaly_score,
              detection |-> FGt(anomaly_score, Num(ScoreHalf))]

\* exp(-x) for x = -0.4, -0.3, ..., 2.0, in ten-thousandths (floor)
ExpTable ==
    <<14918, 13498, 12214, 11051, 10000, 9048, 8187, 7408, 6703, 6065,
      5488, 4965, 4493, 4065, 3678, 3328, 3011, 2725, 2465, 2231,
      2018, 1826, 1652, 1495, 1353>>

\* np.exp(-t / T) for t and T in units of 1e-4 s, t / T a whole number of tenths
ExpDecay(t, T) == ExpTable[(10 * t) \div T + 5]

\* np.clip(x, 0, 1)
Clip(x) == IF x < 0 THEN 0 ELSE IF x > ScoreOne THEN ScoreOne ELSE x

\* A fidelity that is not clipped
FidelityUnclipped(t, T1, T2) ==
    Num((ExpDecay(t, T1) * ExpDecay(t, T2)) \div (2 * ScoreOne) + ScoreHalf)
\* amplitude_decay * phase_decay * 0.5 + 0.5, clipped
Fidelity(t, T1, T2) ==
    Num(Clip((ExpDecay(t, T1) * ExpDecay(t, T2)) \div (2 * ScoreOne) + ScoreHalf))

\* simulate_decoherence(t_list, T1, T2)
simulate_decoherence(t_list, T1, T2) ==
    [i \in 1..Len(t_list) |-> Fidelity(t_list[i], T1, T2)]

\* np.polyfit(x, y, 1)[0] as the fraction num / den, x strictly increasing and
\* positive: the least-squares slope; for one point the least-norm solution of
\* the scaled system, y / (2 x).  An empty x raises TypeError.
polyfit_slope(x, y) ==
    LET w == Len(x)
        xy == [i \in 1..w |-> x[i] * y[i]]
    IN  IF w = 1 THEN [num |-> y[1], den |-> 2 * x[1]]
        ELSE [num |-> w * SumLin(xy, w) - SumLin(x, w) * SumLin(y, w),
              den |-> w * SumSq(x, w) - SumLin(x, w) * SumLin(x, w)]

\* A range that also takes the last full window
WindowStartsToEnd(n, window_size) == 0..(n - window_size)
\* range(len(errors) - window_size)
WindowStarts(n, window_size) == 0..(n - window_size - 1)

\* estimate_clock_drift(sync_events, window_size), window_size >= 0: the
\* estimates in the order of the loop
estimate_clock_drift(sync_events, window_size) ==
    IF ~sync_events.has_columns THEN [raised |-> "KeyError: 'sync_error'", drift |-> <<>>]
    ELSE LET errors == ErrorsOf(sync_events)
             times == TimesOf(sync_events)
             starts == WindowStarts(Len(errors), window_size)
         IN  IF starts # {} /\ window_size = 0
             THEN [raised |-> "TypeError: expected non-empty vector for x", drift |-> <<>>]
             ELSE [raised |-> "none",
                   drift |-> [k \in 1..Cardinality(starts) |->
                                polyfit_slope(SubSeq(times, k, k + window_size - 1),
                                              SubSeq(errors, k, k + window_size - 1))]]

----------------------------------------------------------------------------
(* The QuantumTimeTransfer object: calls on one sync-event table *)

MaxPulses == 3
MaxWindow == 2
MaxTimes == 3

\* pulse times, sorted: evenly spaced, or with gaps
PulseTimeGrids == {[i \in 1..(MaxPulses + 1) |-> i], [i \in 1..(MaxPulses + 1) |-> i * i]}
\* sync errors, in units of 1e-10 s
QttErrorValues == {-2, 0, 3}

\* Sync-event tables: without columns (built from no event), or with up to
\* MaxPulses rows
QttTables ==
    {[has_columns |-> FALSE, rows |-> <<>>], [has_columns |-> TRUE, rows |-> <<>>]}
    \cup UNION {{SyncTable(grid, e) : grid \in PulseTimeGrids, e \in [1..n -> QttErrorValues]} :
                  n \in 1..MaxPulses}

\* threshold_ps
ThresholdValues == {1, 250}
\* times of a decoherence sweep in units of 1e-4 s, 0 to 1 ms and one before 0
SweepTimes == {-2, 0, 5, 10}
\* (T1, T2) in units of 1e-4 s: the defaults 1e-3 and 5e-4, and the two swapped
DecayTimes == {<<10, 5>>, <<5, 10>>}

qttOthers == <<simVars, detVars, spoofVars, nmeaVars, coincVars, utilVars>>

TableIdle == qt_events = <<>> /\ qt_call = [op |-> "init"]
DecoherenceIdle == dc_in = <<>> /\ dc_out = <<>>
QttIdle == TableIdle /\ DecoherenceIdle

InitQtt ==
    /\ qt_events \in QttTables
    /\ qt_call = [op |-> "init"]

InitDecoherence ==
    /\ \E n \in 0..MaxTimes :
          dc_in \in [t_list : [1..n -> SweepTimes], T : DecayTimes]
    /\ dc_out = <<>>

DetectSyncCall ==
    \E threshold_ps \in ThresholdValues :
        /\ qt_call' = [op |-> "detect_sync_anomalies", threshold_ps |-> threshold_ps,
                       out |-> detect_sync_anomalies(qt_events, threshold_ps)]
        /\ UNCHANGED <<qt_events, dc_in, dc_out, qttOthers>>

DecoherenceCall ==
    /\ dc_out' = <<simulate_decoherence(dc_in.t_list, dc_in.T[1], dc_in.T[2])>>
    /\ UNCHANGED <<qt_events, qt_call, dc_in, qttOthers>>

ClockDriftCall ==
    \E window_size \in 0..MaxWindow :
        /\ qt_call' = [op |-> "estimate_clock_drift", window_size |-> window_size,
                       out |-> estimate_clock_drift(qt_events, window_size)]
        /\ UNCHANGED <<qt_events, dc_in, dc_out, qttOthers>>

NextQtt ==
    \/ DetectSyncCall
    \/ ClockDriftCall

NextDecoherence == DecoherenceCall

----------------------------------------------------------------------------
(* simulator.py *)

Max(a, b) == IF a >= b THEN a ELSE b

\* dt = np.random.normal(0, 50e-12, 10)
FallbackSize == 10

\* A grid with one point more than asked for
linspaceOneMore(duration, n) ==
    [i \in 1..(n + 1) |-> [ms |-> (duration * 1000 * (i - 1)) \div n, ps |-> 0]]
\* np.linspace(0, duration, n), duration in seconds
linspace(duration, n) ==
    [i \in 1..n |->
        [ms |-> IF n = 1 THEN 0 ELSE (duration * 1000 * (i - 1)) \div (n - 1), ps |-> 0]]

\* Lines 59-67: events, coincidences, and the synthetic sample when there are none
CoincidenceStage ==
    UNION {IF g.raised # "none" THEN {[raised |-> g.raised, n_events |-> 0]}
           ELSE UNION {LET c == compute_coincidences(g.table, sorted, WindowPs)
                           n_events == Len(g.table.rows)
                       IN  IF c.raised # "none"
                           THEN {[raised |-> c.raised, n_events |-> n_events]}
                           ELSE IF Len(c.dt) = 0
                           THEN {[raised |-> "none", dt |-> f, fallback |-> TRUE] :
                                    f \in NormalDraws(LegitSigmaPs, FallbackSize)}
                           ELSE {[raised |-> "none", dt |-> c.dt, fallback |-> FALSE]} :
                         sorted \in SortedOrders(g.table.rows)} :
             g \in generate_pairs}

\* Lines 73-74: the spoofed streams apply_spoof can return
SpoofStage(self, gnss_times, dt) ==
    UNION {{apply_spoof(self, gnss_times, dt, mask, noise, w) :
                noise \in SpoofNoiseDraws(self, NSelected(mask)),
                w \in SpoofOffsetDraws(self)} :
             mask \in {SpoofMask(self, u) : u \in UniformDraws(Len(gnss_times))}}

\* Lines 77-86: sync_events, qtt_anomaly_score and qtt_detection
QttStage(enable_qtt, sync_rate, duration) ==
    IF ~enable_qtt
    THEN {[raised |-> "none", sync_errors |-> <<>>,
           anomaly_score |-> Num(0), detection |-> FALSE]}
    ELSE {LET qtt_results == detect_sync_anomalies(sync_events, 1)
          IN  IF qtt_results.raised # "none" THEN [raised |-> qtt_results.raised]
              ELSE [raised |-> "none", sync_errors |-> ErrorsOf(sync_events),
                    anomaly_score |-> qtt_results.anomaly_score,
                    detection |-> qtt_results.detection] :
            sync_events \in generate_sync_pulses(duration, sync_rate)}

\* Lines 88-97: detect(spoofed_dt, use_ml=False), or after any exception in it
\* (the except clause is bare) a score drawn by np.random.random()
DetectStage(v, spoofed_dt) ==
    {[failed |-> FALSE, result |-> detect(v, spoofed_dt, FALSE, legit_dt, 0)] :
        legit_dt \in NormalDraws(LegitSigmaPs, Len(spoofed_dt))}
    \cup {[failed |-> TRUE,
           result |-> [combined_score |-> Num(u * 100),
                       decision |-> FGt(Num(u * 100), Num(ScoreHalf))]] :
            u \in UniformValues}

\* Lines 99-106: the fusion with the QTT result
FuseScore(enable_qtt, detection_result, qtt_anomaly_score) ==
    IF enable_qtt THEN Mix73(detection_result.combined_score, qtt_anomaly_score)
    ELSE detection_result.combined_score
\* A fusion that needs both detections
FuseDecisionBoth(enable_qtt, detection_result, final_score, qtt_detection) ==
    IF enable_qtt THEN FGt(final_score, Num(ScoreHalf)) /\ qtt_detection
    ELSE detection_result.decision
FuseDecision(enable_qtt, detection_result, final_score, qtt_detection) ==
    IF enable_qtt THEN FGt(final_score, Num(ScoreHalf)) \/ qtt_detection
    ELSE detection_result.decision

\* 1 - x
OneMinus(x) == IF x.nan THEN NaN ELSE Num(ScoreOne - x.v)

\* Lines 108-118: the row; attack_config['attack_type'] raises KeyError
\* when the key is missing
ResultRow(enable_qtt, pass_info, attack_config, dt, det, qtt) ==
    LET final_score == FuseScore(enable_qtt, det.result, qtt.anomaly_score)
        final_decision == FuseDecision(enable_qtt, det.result, final_score, qtt.detection)
    IN  IF "attack_type" \notin DOMAIN attack_config
        THEN [raised |-> "KeyError: 'attack_type'"]
        ELSE [raised |-> "none",
              row |-> [pass_id |-> <<pass_info.satellite, pass_info.rise_time>>,
                       attack_type |-> attack_config.attack_type,
                       n_pairs |-> Len(dt),
                       detection_score |-> final_score,
                       decision |-> final_decision,
                       qtt_score |-> IF enable_qtt THEN <<qtt.anomaly_score>> ELSE <<>>,
                       qtt_detection |-> IF enable_qtt THEN <<qtt.detection>> ELSE <<>>,
                       tpr |-> final_score,
                       fpr |-> OneMinus(final_score)]]

\* What is kept of the locals of one run_single_pass
Locals(c, gnss_times, sp, det, qtt) ==
    [fallback |-> c.fallback, n_dt |-> Len(c.dt), n_gnss |-> Len(gnss_times),
     n_spoofed_gnss |-> Len(sp.spoofed_gnss), n_spoofed_dt |-> Len(sp.spoofed_dt),
     detection_result |-> det.result, detector_failed |-> det.failed,
     sync_errors |-> qtt.sync_errors,
     qtt_anomaly_score |-> qtt.anomaly_score, qtt_detection |-> qtt.detection]

\* Simulator.run_single_pass(pass_info, attack_config): every outcome, a row
\* returned or an exception raised, with the locals the call had by then
run_single_pass(sim, v, pass_info, attack_config) ==
    LET duration == Max(pass_info.duration_min * 60, 60)
        self == GNSSSpoof(attack_config)
        qtt_results == QttStage(sim.enable_qtt, sim.sync_rate, duration)
    IN  UNION {
          IF c.raised # "none"
          THEN {[raised |-> c.raised, locals |-> [n_events |-> c.n_events]]}
          ELSE LET gnss_times == linspace(duration, Len(c.dt))
               IN  UNION {
                     LET detection_results == DetectStage(v, sp.spoofed_dt)
                     IN  UNION {
                           IF qtt.raised # "none"
                           THEN {[raised |-> qtt.raised,
                                  locals |-> [fallback |-> c.fallback, n_dt |-> Len(c.dt)]]}
                           ELSE {LET r == ResultRow(sim.enable_qtt, pass_info,
                                                    attack_config, c.dt, det, qtt)
                                 IN  IF r.raised # "none"
                                     THEN [raised |-> r.raised,
                                           locals |-> [fallback |-> c.fallback,
                                                       n_dt |-> Len(c.dt),
                                                       detector_failed |-> det.failed]]
                                     ELSE [raised |-> "none", row |-> r.row,
                                           locals |-> Locals(c, gnss_times, sp, det, qtt)] :
                                    det \in detection_results} :
                              qtt \in qtt_results} :
                        sp \in SpoofStage(self, gnss_times, c.dt)} :
             c \in CoincidenceStage}

\* Lines 129-145: the provider's passes, or one synthetic pass
SyntheticPass ==
    [satellite |-> "TEST-SAT", rise_time |-> 0, duration_min |-> 10, max_elevation |-> 45]
PassesOf(provided) == IF Len(provided) = 0 THEN <<SyntheticPass>> ELSE provided

\* Lines 155-166: the dummy row; attack_config['attack_type'] raises KeyError
\* inside the handler when the key is missing
DummyRow(attack_config, idx) ==
    IF "attack_type" \notin DOMAIN attack_config
    THEN [raised |-> "KeyError: 'attack_type'"]
    ELSE [raised |-> "none",
          row |-> [pass_id |-> <<"ERROR", idx>>,
                   attack_type |-> attack_config.attack_type,
                   n_pairs |-> 0,
                   detection_score |-> Num(ScoreHalf),
                   decision |-> FALSE,
                   tpr |-> Num(ScoreHalf),
                   fpr |-> Num(ScoreHalf)]]

IsErrorRow(row) == row.pass_id[1] = "ERROR"

\* A loop that stops after the units of the first repetition
NextUnitOfOneRun(mc_runs, n_passes, n_attacks, r, p, a) ==
    IF a < n_attacks THEN <<r, p, a + 1>>
    ELSE IF p < n_passes THEN <<r, p + 1, 1>>
    ELSE <<>>

\* The loop of run: the position after unit (run_idx, pass_idx, att_idx), or
\* <<>> when it was the last
NextUnit(mc_runs, n_passes, n_attacks, r, p, a) ==
    IF a < n_attacks THEN <<r, p, a + 1>>
    ELSE IF p < n_passes THEN <<r, p + 1, 1>>
    ELSE IF r + 1 < mc_runs THEN <<r + 1, 1, 1>>
    ELSE <<>>

\* The number of (run, pass, attack) units one call of run is followed through
MaxUnits == 2

\* Attack dictionaries of config['attacks']
AttackMenu ==
    <<[attack_type |-> "time-push", delta_ns |-> 10, spoof_rate |-> 100],
      [delta_ns |-> 10, spoof_rate |-> 100],
      [attack_type |-> "none"],
      [attack_type |-> "replica", delta_ns |-> 1]>>

AttackLists ==
    {[i \in 1..k |-> AttackMenu[((first + i - 2) % Len(AttackMenu)) + 1]] :
        first \in 1..Len(AttackMenu), k \in 0..MaxUnits}

\* What Orbital.compute_passes answers: no pass, or passes of 8 and of 0 minutes
ProviderPass(i) ==
    [satellite |-> "SAT", rise_time |-> i, duration_min |-> 8 * (i % 2), max_elevation |-> 45]
ProviderAnswers == {[i \in 1..k |-> ProviderPass(i)] : k \in 0..MaxUnits}

\* sync_rate in pulses per 1000 s
SyncRates == {5}

simOthers == <<detVars, spoofVars, nmeaVars, coincVars, qttVars, utilVars>>

\* Simulator(config), before run(mc_runs)
InitSim ==
    /\ pc = "start"
    /\ cfg \in {c \in [attacks : AttackLists, enable_qtt : BOOLEAN, sync_rate : SyncRates,
                       mc_runs : 0..MaxUnits, provided : ProviderAnswers] :
                   c.mc_runs * Len(PassesOf(c.provided)) * Len(c.attacks) <= MaxUnits}
    /\ passes = <<>>
    /\ run_idx = 0 /\ pass_idx = 0 /\ att_idx = 0
    /\ results = <<>>
    /\ unit = <<>>

\* run, lines 129-147: the passes, and the first unit of the loops if there is one
ComputePasses ==
    /\ pc = "start"
    /\ passes' = PassesOf(cfg.provided)
    /\ IF cfg.mc_runs > 0 /\ Len(cfg.attacks) > 0
       THEN pc' = "loop" /\ pass_idx' = 1 /\ att_idx' = 1
       ELSE pc' = "done" /\ UNCHANGED <<pass_idx, att_idx>>
    /\ UNCHANGED <<cfg, run_idx, results, unit, simOthers>>

\* run, lines 147-166: one pass of the innermost loop body, the except clause
\* included; an exception raised inside the except clause leaves run
RunUnit ==
    /\ pc = "loop"
    /\ LET attack_config == cfg.attacks[att_idx]
           next == NextUnit(cfg.mc_runs, Len(passes), Len(cfg.attacks),
                            run_idx, pass_idx, att_idx)
       IN  \E o \in run_single_pass(cfg, vae, passes[pass_idx], attack_config) :
             LET handled == IF o.raised = "none" THEN o
                            ELSE DummyRow(attack_config, run_idx)
             IN  /\ unit' = <<[run_idx |-> run_idx, pass_idx |-> pass_idx, att_idx |-> att_idx,
                              outcome |-> o, escaped |-> handled.raised]>>
                 /\ IF handled.raised # "none"
                    THEN pc' = "aborted" /\ UNCHANGED <<run_idx, pass_idx, att_idx, results>>
                    ELSE /\ results' = Append(results, handled.row)
                         /\ IF next = <<>>
                            THEN pc' = "done" /\ UNCHANGED <<run_idx, pass_idx, att_idx>>
                            ELSE /\ pc' = "loop"
                                 /\ run_idx' = next[1]
                                 /\ pass_idx' = next[2]
                                 /\ att_idx' = next[3]
    /\ UNCHANGED <<cfg, passes, simOthers>>

Next == ComputePasses \/ RunUnit

----------------------------------------------------------------------------
(* Specifications of the parts *)

SimIdle ==
    /\ pc = "idle" /\ cfg = <<>> /\ passes = <<>> /\ run_idx = 0 /\ pass_idx = 0
    /\ att_idx = 0 /\ results = <<>> /\ unit = <<>>

Init == InitSim /\ DetIdle /\ SpoofIdle /\ NmeaIdle /\ CoincIdle /\ QttIdle /\ UtilIdle
Spec == Init /\ [][Next]_vars

StartDetector ==
    InitDetector /\ SimIdle /\ SpoofIdle /\ NmeaIdle /\ CoincIdle /\ QttIdle /\ UtilIdle
SpecDetector == StartDetector /\ [][NextDetector]_vars

StartSpoof == InitSpoof /\ SimIdle /\ DetIdle /\ NmeaIdle /\ CoincIdle /\ QttIdle /\ UtilIdle
SpecSpoof == StartSpoof /\ [][NextSpoof]_vars

StartNmea == InitNmea /\ SimIdle /\ DetIdle /\ SpoofIdle /\ CoincIdle /\ QttIdle /\ UtilIdle
SpecNmea == StartNmea /\ [][NextNmea]_vars

StartCoinc == InitCoinc /\ SimIdle /\ DetIdle /\ SpoofIdle /\ NmeaIdle /\ QttIdle /\ UtilIdle
SpecCoinc == StartCoinc /\ [][NextCoinc]_vars

StartQtt ==
    /\ InitQtt /\ DecoherenceIdle
    /\ SimIdle /\ DetIdle /\ SpoofIdle /\ NmeaIdle /\ CoincIdle /\ UtilIdle
SpecQtt == StartQtt /\ [][NextQtt]_vars

StartDecoherence ==
    /\ InitDecoherence /\ TableIdle
    /\ SimIdle /\ DetIdle /\ SpoofIdle /\ NmeaIdle /\ CoincIdle /\ UtilIdle
SpecDecoherence == StartDecoherence /\ [][NextDecoherence]_vars

StartUtil == InitUtil /\ SimIdle /\ DetIdle /\ SpoofIdle /\ NmeaIdle /\ CoincIdle /\ QttIdle
SpecUtil == StartUtil /\ [][NextUtil]_vars


----------------------------------------------------------------------------
(* Simulator.run and run_single_pass *)

LastRow == results[Len(results)]

\* C1: run never aborts on a failure inside one unit: whenever a unit raised,
\* for an attack dict with or without 'attack_type', a dummy row (score 0.5,
\* decision False) is recorded for it and run goes on
RunNeverAborts ==
    /\ pc # "aborted"
    /\ (unit # <<>> /\ unit[1].outcome.raised # "none") =>
          /\ pc \in {"loop", "done"}
          /\ Len(results) > 0
          /\ IsErrorRow(LastRow)
          /\ LastRow.detection_score = Num(ScoreHalf)
          /\ LastRow.decision = FALSE

\* The configuration of the end-to-end scenario
EndToEndConfig ==
    /\ cfg.attacks = <<[attack_type |-> "time-push", delta_ns |-> 10, spoof_rate |-> 100]>>
    /\ ~cfg.enable_qtt
    /\ cfg.mc_runs = 1
    /\ cfg.provided = <<>>

\* C2: in the end-to-end scenario run makes exactly one synthetic pass of 10
\* minutes and returns exactly one row, not an error row, whose
\* detection_score is a number in [0, 1]
EndToEndOneGoodRow ==
    EndToEndConfig =>
        /\ pc # "aborted"
        /\ pc # "start" => Len(passes) = 1 /\ passes[1].duration_min = 10
        /\ pc = "done" =>
              /\ Len(results) = 1
              /\ ~IsErrorRow(results[1])
              /\ InUnit(results[1].detection_score)

\* C10: the row of a unit that returned fuses the detector's result and the
\* QTT result: enabled, detection_score = 0.7 * combined_score + 0.3 *
\* anomaly_score and decision = detection_score > 0.5 or qtt_detection;
\* disabled, both are the detector's and the two qtt fields are absent
FusionOfScores ==
    (unit # <<>> /\ unit[1].outcome.raised = "none") =>
        LET row == unit[1].outcome.row
            l == unit[1].outcome.locals
            c == l.detection_result.combined_score
            q == l.qtt_anomaly_score
        IN  /\ row = LastRow
            /\ cfg.enable_qtt =>
                  /\ row.detection_score.nan = (c.nan \/ q.nan)
                  /\ ~row.detection_score.nan =>
                        row.detection_score.v = (7 * c.v + 3 * q.v) \div 10
                  /\ row.decision =
                        ((~row.detection_score.nan /\ row.detection_score.v > ScoreHalf)
                         \/ l.qtt_detection)
                  /\ row.qtt_score = <<q>>
                  /\ row.qtt_detection = <<l.qtt_detection>>
            /\ ~cfg.enable_qtt =>
                  /\ row.detection_score = c
                  /\ row.decision = l.detection_result.decision
                  /\ row.qtt_score = <<>>
                  /\ row.qtt_detection = <<>>

\* A unit with QTT enabled in which detect returned, whose fused score is at
\* most 0.5 and whose QTT channel detected
FusionByQttAlone ==
    /\ unit # <<>>
    /\ unit[1].outcome.raised = "none"
    /\ cfg.enable_qtt
    /\ ~unit[1].outcome.locals.detector_failed
    /\ unit[1].outcome.locals.qtt_detection
    /\ ~FGt(LastRow.detection_score, Num(ScoreHalf))
    /\ LastRow.decision

----------------------------------------------------------------------------
(* Detector *)

\* C3: classical_detect returns a score in [0, 1] for any finite non-empty
\* samples, a spoofed sample at 10 ns included
ClassicalScoreInUnit ==
    det_call.op = "classical_detect" => InUnit(det_call.score)

\* C8: while no train_vae call has completed, after build_vae alone included,
\* ml_detect fails with the not-ready error; after one has, it returns a value
MlDetectNeedsTraining ==
    det_call.op = "ml_detect" =>
        /\ ~fitted => det_call.out.raised = "ValueError: VAE not trained"
        /\ fitted => det_call.out.raised = "none" /\ IsNum(det_call.out.value)

\* C9: detect returns combined_score = 0.7 * classical_score + 0.3 * ml_score
\* with use_ml, classical_score and no ml_score without; decision is
\* combined_score > 0.5; without use_ml combined_score lies in [0, 1]
DetectCombination ==
    (det_call.op = "detect" /\ det_call.out.raised = "none") =>
        LET out == det_call.out
        IN  /\ det_call.use_ml =>
                  /\ Len(out.ml_score) = 1
                  /\ out.combined_score.nan =
                        (out.classical_score.nan \/ out.ml_score[1].nan)
                  /\ ~out.combined_score.nan =>
                        out.combined_score.v =
                          (7 * out.classical_score.v + 3 * out.ml_score[1].v) \div 10
            /\ ~det_call.use_ml =>
                  /\ out.ml_score = <<>>
                  /\ out.combined_score = out.classical_score
                  /\ InUnit(out.combined_score)
            /\ out.decision = (~out.combined_score.nan /\ out.combined_score.v > ScoreHalf)

\* The pass of the last unit had no coincidence: the channel generated no
\* event at all, or the events it generated gave no coincident pair
ZeroCoincidences ==
    /\ unit # <<>>
    /\ LET l == unit[1].outcome.locals
       IN  \/ "n_events" \in DOMAIN l /\ l.n_events = 0
           \/ "fallback" \in DOMAIN l /\ l.fallback

\* C16, as written: a pass with zero coincidences, the pass whose channel
\* generated no photon event at all included, gets a synthetic dt sample of
\* size 10, completes normally and gives a row that is not an error row,
\* with n_pairs = 10
EmptyCoincidenceRecovery ==
    ZeroCoincidences =>
        /\ unit[1].outcome.raised = "none"
        /\ pc # "aborted"
        /\ ~IsErrorRow(LastRow)
        /\ LastRow.n_pairs = FallbackSize

\* detect raised in the pass of the last unit
DetectorFailed ==
    /\ unit # <<>>
    /\ "detector_failed" \in DOMAIN unit[1].outcome.locals
    /\ unit[1].outcome.locals.detector_failed

\* C19, as written: when detect raises inside run_single_pass the pass does
\* not become an error row: a number s in [0, 1) stands for combined_score,
\* the decision is s > 0.5, and the row is completed with the pass_id of the
\* pass and its n_pairs
DetectorFailureSubstitutes ==
    DetectorFailed =>
        /\ unit[1].outcome.raised = "none"
        /\ pc # "aborted"
        /\ LET l == unit[1].outcome.locals
               s == l.detection_result.combined_score
               pass_info == passes[unit[1].pass_idx]
           IN  /\ ~s.nan /\ s.v >= 0 /\ s.v < ScoreOne
               /\ l.detection_result.decision = (s.v > ScoreHalf)
               /\ ~IsErrorRow(LastRow)
               /\ LastRow.pass_id = <<pass_info.satellite, pass_info.rise_time>>
               /\ LastRow.n_pairs = l.n_dt

\* The unit (run, pass, attack) of row i in run-major, then pass, then attack
\* order
UnitOfRow(i) ==
    LET A == Len(cfg.attacks)
        P == Len(passes)
    IN  [run |-> (i - 1) \div (A * P),
         pass_info |-> passes[(((i - 1) \div A) % P) + 1],
         attack_config |-> cfg.attacks[((i - 1) % A) + 1]]

\* One row per unit, in the order of the units
TableMatchesUnits ==
    /\ Len(results) = cfg.mc_runs * Len(passes) * Len(cfg.attacks)
    /\ \A i \in 1..Len(results) :
          /\ results[i].attack_type = UnitOfRow(i).attack_config.attack_type
          /\ results[i].pass_id \in
                {<<UnitOfRow(i).pass_info.satellite, UnitOfRow(i).pass_info.rise_time>>,
                 <<"ERROR", UnitOfRow(i).run>>}

PassSyncErrors == unit[1].outcome.locals.sync_errors
PassSyncSpread ==
    Len(PassSyncErrors)
        * SumOver([i \in DOMAIN PassSyncErrors |-> PassSyncErrors[i] * PassSyncErrors[i]],
                  DOMAIN PassSyncErrors)
    - SumOver(PassSyncErrors, DOMAIN PassSyncErrors)
        * SumOver(PassSyncErrors, DOMAIN PassSyncErrors)
QttPassReturned ==
    /\ unit # <<>>
    /\ cfg.enable_qtt
    /\ unit[1].outcome.raised = "none"

\* C22, as written: the QTT detection is True exactly when the population
\* variance of the sync errors exceeds 1e-20, so with QTT enabled every pass
\* whose sync errors are not constant gets final decision True, whatever the
\* attack type and the detector score
QttFlagsEveryVaryingPass ==
    QttPassReturned =>
        /\ unit[1].outcome.locals.qtt_detection
              = (PassSyncSpread > Len(PassSyncErrors) * Len(PassSyncErrors))
        /\ PassSyncSpread > 0 => LastRow.decision

\* C22, amended: the QTT detection is True exactly when the population
\* variance of the sync errors exceeds 1e-20, so with QTT enabled every pass
\* whose sync errors have a variance above 1e-20 gets final decision True,
\* whatever the attack type and the detector score
QttFlagsEveryPassAboveVariance ==
    QttPassReturned =>
        /\ unit[1].outcome.locals.qtt_detection
              = (PassSyncSpread > Len(PassSyncErrors) * Len(PassSyncErrors))
        /\ PassSyncSpread > Len(PassSyncErrors) * Len(PassSyncErrors) =>
              LastRow.decision

\* A pass with no attack whose detector score is not above 0.5 and whose sync
\* errors vary by more than 1e-20: decided True
QttDecidesUnattackedPass ==
    /\ QttPassReturned
    /\ cfg.attacks[unit[1].att_idx].attack_type = "none"
    /\ PassSyncSpread > Len(PassSyncErrors) * Len(PassSyncErrors)
    /\ ~FGt(unit[1].outcome.locals.detection_result.combined_score, Num(ScoreHalf))
    /\ LastRow.decision

\* C23, as written: every row of the table, normal, detector-fallback or
\* dummy, has tpr = detection_score and fpr = 1 - detection_score, hence
\* tpr + fpr = 1, and with QTT disabled its decision is True exactly when its
\* detection_score is above 0.5
RowRatesSumToOne ==
    \A i \in 1..Len(results) :
        LET row == results[i]
        IN  /\ row.tpr = row.detection_score
            /\ row.fpr.nan = row.detection_score.nan
            /\ IsNum(row.fpr) => row.fpr.v = ScoreOne - row.detection_score.v
            /\ IsNum(row.tpr) /\ IsNum(row.fpr) /\ row.tpr.v + row.fpr.v = ScoreOne
            /\ ~cfg.enable_qtt =>
                  row.decision = FGt(row.detection_score, Num(ScoreHalf))

\* C25: every row that is not an error row has n_pairs >= 1, and in its pass
\* the GNSS grid, the spoofed GNSS stream and the spoofed dt stream have
\* n_pairs elements each; n_pairs = 0 is found in dummy error rows only
PairCountInEveryStream ==
    /\ \A i \in 1..Len(results) :
          IF IsErrorRow(results[i]) THEN results[i].n_pairs = 0
          ELSE results[i].n_pairs >= 1
    /\ (unit # <<>> /\ unit[1].outcome.raised = "none") =>
          LET l == unit[1].outcome.locals
          IN  /\ ~IsErrorRow(LastRow)
              /\ LastRow = unit[1].outcome.row
              /\ l.n_dt = LastRow.n_pairs
              /\ l.n_gnss = LastRow.n_pairs
              /\ l.n_spoofed_gnss = LastRow.n_pairs
              /\ l.n_spoofed_dt = LastRow.n_pairs

\* A dummy error row followed by the row of a pass that went on with the
\* synthetic sample of 10
ErrorRowThenSyntheticSample ==
    /\ Len(results) = 2
    /\ IsErrorRow(results[1])
    /\ unit # <<>>
    /\ unit[1].outcome.raised = "none"
    /\ unit[1].outcome.locals.fallback
    /\ LastRow.n_pairs = FallbackSize

----------------------------------------------------------------------------
(* GNSSSpoof *)

\* C4: apply_spoof with time-push and spoof_rate 1.0 moves every sample: each
\* GNSS time by exactly delta, each dt by delta plus its own noise draw
TimePushMovesEverySample ==
    (sp_draw # <<>> /\ GNSSSpoof(sp_cfg).attack_type = "time-push"
                   /\ GNSSSpoof(sp_cfg).spoof_rate = 100) =>
        LET delta == GNSSSpoof(sp_cfg).delta_ns * 1000
        IN  /\ Len(sp_out.spoofed_gnss) = Len(sp_in.gnss_times)
            /\ Len(sp_out.spoofed_dt) = Len(sp_in.quantum_dt)
            /\ \A i \in 1..Len(sp_in.gnss_times) :
                  /\ sp_out.spoofed_gnss[i].ms = sp_in.gnss_times[i].ms
                  /\ sp_out.spoofed_gnss[i].ps = sp_in.gnss_times[i].ps + delta
                  /\ sp_out.spoofed_dt[i] = sp_in.quantum_dt[i] + delta + sp_draw.noise[i]

\* A time-push of 10 ns at rate 1.0 over two samples, a draw of 0.99 in the
\* mask and a noise draw that is not zero
TimePushWithNoise ==
    /\ sp_draw # <<>>
    /\ sp_cfg = [attack_type |-> "time-push", delta_ns |-> 10, spoof_rate |-> 100]
    /\ Len(sp_in.gnss_times) = 2
    /\ \E i \in 1..2 : sp_draw.u[i] = 99
    /\ \E i \in 1..2 : sp_draw.noise[i] # 0

\* The samples the mask of the call selected
SpoofSelected == {i \in 1..Len(sp_in.gnss_times) : sp_draw.u[i] < GNSSSpoof(sp_cfg).spoof_rate}

\* C17: apply_spoof with replica draws one offset per call, in
\* [-100 ns, 100 ns], and adds it to every selected sample of both streams,
\* with no per-sample noise; the other samples are unchanged
ReplicaOneOffset ==
    (sp_draw # <<>> /\ GNSSSpoof(sp_cfg).attack_type = "replica") =>
        /\ Len(sp_out.spoofed_gnss) = Len(sp_in.gnss_times)
        /\ Len(sp_out.spoofed_dt) = Len(sp_in.quantum_dt)
        /\ \A i \in SpoofSelected :
              LET offset == sp_out.spoofed_dt[i] - sp_in.quantum_dt[i]
              IN  /\ offset >= -100 * 1000
                  /\ offset <= 100 * 1000
                  /\ \A j \in SpoofSelected :
                        /\ sp_out.spoofed_dt[j] = sp_in.quantum_dt[j] + offset
                        /\ sp_out.spoofed_gnss[j] = AddPs(sp_in.gnss_times[j], offset)
        /\ \A i \in 1..Len(sp_in.gnss_times) \ SpoofSelected :
              /\ sp_out.spoofed_gnss[i] = sp_in.gnss_times[i]
              /\ sp_out.spoofed_dt[i] = sp_in.quantum_dt[i]

\* A replica call that selected both of two samples and drew an offset that
\* is not zero
ReplicaBothSelected ==
    /\ sp_draw # <<>>
    /\ GNSSSpoof(sp_cfg).attack_type = "replica"
    /\ Cardinality(SpoofSelected) = 2
    /\ sp_out.spoofed_dt[1] # sp_in.quantum_dt[1]
    /\ sp_in.quantum_dt[1] # sp_in.quantum_dt[2]

\* C21: apply_spoof does not modify its input arrays; it returns two arrays
\* of the input length in which every sample the mask did not select equals
\* its input, for every attack type; with spoof_rate 0, or attack_type
\* 'none' or a type that is not recognised, both outputs equal the inputs
SpoofLeavesTheRestAlone ==
    /\ [](sp_draw # <<>> =>
            /\ Len(sp_out.spoofed_gnss) = Len(sp_in.gnss_times)
            /\ Len(sp_out.spoofed_dt) = Len(sp_in.quantum_dt)
            /\ \A i \in 1..Len(sp_in.gnss_times) \ SpoofSelected :
                  /\ sp_out.spoofed_gnss[i] = sp_in.gnss_times[i]
                  /\ sp_out.spoofed_dt[i] = sp_in.quantum_dt[i]
            /\ (\/ GNSSSpoof(sp_cfg).spoof_rate = 0
                \/ GNSSSpoof(sp_cfg).attack_type \notin {"time-push", "replica", "hybrid"}) =>
                  /\ sp_out.spoofed_gnss = sp_in.gnss_times
                  /\ sp_out.spoofed_dt = sp_in.quantum_dt)
    /\ [][sp_in' = sp_in]_vars

\* A call with a type that is not recognised whose mask selected both of two
\* samples
UnrecognisedTypeAllSelected ==
    /\ sp_draw # <<>>
    /\ GNSSSpoof(sp_cfg).attack_type = "meaconing"
    /\ Cardinality(SpoofSelected) = 2

\* The sentences of the input whose time field is six digits
SixDigitTime(sentence) ==
    /\ StartsWith(sentence, GPGGA)
    /\ Len(Split(sentence)) > 1
    /\ Len(Split(sentence)[2]) = 6
    /\ \A k \in 1..6 : IsDigit(Split(sentence)[2][k])

\* C6: a $GPGGA sentence with a six-digit time field comes back with another
\* time field, so with delta_ns >= 1 the sentence returned differs
NmeaTimeIsMoved ==
    (nm_out # <<>> /\ ~nm_out[1].raised /\ nm_delta >= 1) =>
        \A i \in 1..Len(nm_in) :
            SixDigitTime(nm_in[i]) => nm_out[1].spoofed[i] # nm_in[i]

\* C7: generate_nmea_spoofed does not raise; the list returned has the length
\* of the input, and every sentence that is not $GPGGA or whose time field is
\* malformed is the input sentence
NmeaOthersUntouched ==
    nm_out # <<>> =>
        /\ ~nm_out[1].raised
        /\ Len(nm_out[1].spoofed) = Len(nm_in)
        /\ \A i \in 1..Len(nm_in) :
              ~SixDigitTime(nm_in[i]) => nm_out[1].spoofed[i] = nm_in[i]

----------------------------------------------------------------------------
(* QuantumChannel.compute_coincidences *)

\* The index pairs of the sorted rows that coincide
CoincidentPairs ==
    {p \in (1..Len(co_sorted)) \X (1..Len(co_sorted)) :
        /\ p[1] < p[2]
        /\ co_sorted[p[1]].detector # co_sorted[p[2]].detector
        /\ co_sorted[p[2]].time - co_sorted[p[1]].time <= WindowPs}

\* The place of pair p when the pairs are ordered by i, then j
PlaceOf(p) ==
    1 + Cardinality({q \in CoincidentPairs :
                        q[1] < p[1] \/ (q[1] = p[1] /\ q[2] < p[2])})

\* C5: the output holds t_j - t_i once for every pair i < j of the sorted
\* events on different detectors within the window, ordered by i then j,
\* and nothing else
OneDtPerCoincidentPair ==
    (co_out # <<>> /\ co_out[1].raised = "none") =>
        /\ Len(co_out[1].dt) = Cardinality(CoincidentPairs)
        /\ \A p \in CoincidentPairs :
              co_out[1].dt[PlaceOf(p)] = co_sorted[p[2]].time - co_sorted[p[1]].time

\* One event in two pairs, one of them exactly one window wide
EventInTwoPairs ==
    /\ co_out # <<>>
    /\ co_out[1].raised = "none"
    /\ \E p \in CoincidentPairs, q \in CoincidentPairs :
          /\ p[1] = q[1] /\ p[2] < q[2]
          /\ co_sorted[q[2]].time - co_sorted[q[1]].time = WindowPs
          /\ co_sorted[p[2]].time # co_sorted[q[2]].time

\* Two sequences with the same elements, each as many times
SameMultiset(a, b) ==
    /\ Len(a) = Len(b)
    /\ \A k \in 1..Len(a) :
          Cardinality({m \in 1..Len(a) : a[m] = a[k]})
              = Cardinality({m \in 1..Len(b) : b[m] = a[k]})

\* The tables with the rows of the table at hand in another order
Reordered ==
    {[has_columns |-> TRUE,
      rows |-> [k \in 1..Len(co_events.rows) |-> co_events.rows[p[k]]]] :
        p \in {q \in [1..Len(co_events.rows) -> 1..Len(co_events.rows)] :
                  IsPermutation(q, Len(co_events.rows))}}

\* C24: compute_coincidences returns for every finite event table, nothing
\* for fewer than two events; every dt it returns is in [0, window], the
\* boundary included, and is the time difference of two events on different
\* detectors; and the multiset returned is the same for every order of the
\* rows of the table
CoincidencesWithinWindow ==
    (co_out # <<>> /\ co_events.has_columns) =>
        LET dt == co_out[1].dt
            rows == co_events.rows
        IN  /\ co_out[1].raised = "none"
            /\ Len(rows) < 2 => dt = <<>>
            /\ \A k \in 1..Len(dt) :
                  /\ dt[k] >= 0
                  /\ dt[k] <= WindowPs
                  /\ \E a \in 1..Len(rows), b \in 1..Len(rows) :
                        /\ a # b
                        /\ rows[a].detector # rows[b].detector
                        /\ rows[b].time - rows[a].time = dt[k]
            /\ \A other \in Reordered :
                  \A sorted \in SortedOrders(other.rows) :
                      SameMultiset(compute_coincidences(other, sorted, WindowPs).dt, dt)

\* A table whose rows are not in time order, with a pair exactly one window
\* apart and a pair on one detector inside the window
UnsortedTableWithBoundaryPair ==
    /\ co_out # <<>>
    /\ co_events.has_columns
    /\ \E a \in 1..Len(co_events.rows), b \in 1..Len(co_events.rows) :
          a < b /\ co_events.rows[a].time > co_events.rows[b].time
    /\ \E a \in 1..Len(co_events.rows), b \in 1..Len(co_events.rows) :
          /\ a # b
          /\ co_events.rows[a].detector = co_events.rows[b].detector
          /\ co_events.rows[a].time # co_events.rows[b].time
    /\ \E k \in 1..Len(co_out[1].dt) : co_out[1].dt[k] = WindowPs

----------------------------------------------------------------------------
(* QuantumTimeTransfer *)

\* The sync errors of the table at hand, their number, sum and spread
\* N * sum(e^2) - sum(e)^2, summed over the index set
TableErrors == [i \in 1..Len(qt_events.rows) |-> qt_events.rows[i].sync_error]
TableTimes == [i \in 1..Len(qt_events.rows) |-> qt_events.rows[i].pulse_time]
TableSum == SumOver(TableErrors, DOMAIN TableErrors)
TableSpread ==
    Len(TableErrors)
        * SumOver([i \in DOMAIN TableErrors |-> TableErrors[i] * TableErrors[i]],
                  DOMAIN TableErrors)
    - TableSum * TableSum

SyncAnomaliesReturned ==
    /\ qt_call.op = "detect_sync_anomalies"
    /\ Len(qt_events.rows) > 0

\* C11, as written: for a non-empty table anomaly_score = min(1, chi2 / N)
\* with chi2 the sum of squared deviations from the mean divided by the
\* variance (which makes chi2 / N equal to 1 whenever the variance is not 0),
\* 0 <= anomaly_score <= 1, and detection is anomaly_score > 0.5
SyncScoreIsChi2OverN ==
    SyncAnomaliesReturned =>
        /\ qt_call.out.raised = "none"
        /\ TableSpread > 0 => qt_call.out.anomaly_score = Num(ScoreOne)
        /\ InUnit(qt_call.out.anomaly_score)
        /\ qt_call.out.detection = FGt(qt_call.out.anomaly_score, Num(ScoreHalf))

\* C11, amended: for a non-empty table anomaly_score = min(1, chi2 / N) with
\* chi2 the sum of squared deviations from the mean divided by the variance
\* plus 1e-20 s^2, so that chi2 / N = V / (V + N^2) in the units of the
\* model; 0 <= anomaly_score <= 1, and detection is anomaly_score > 0.5
SyncScoreIsRegularisedChi2 ==
    SyncAnomaliesReturned =>
        LET N == Len(TableErrors)
            ratio == (TableSpread * ScoreOne) \div (TableSpread + N * N)
        IN  /\ qt_call.out.raised = "none"
            /\ qt_call.out.anomaly_score =
                  Num(IF ratio > ScoreOne THEN ScoreOne ELSE ratio)
            /\ InUnit(qt_call.out.anomaly_score)
            /\ qt_call.out.detection = FGt(qt_call.out.anomaly_score, Num(ScoreHalf))

\* A table of errors that differ, scored above 0.5 and below 1
SyncScoreBetween ==
    /\ SyncAnomaliesReturned
    /\ TableSpread > 0
    /\ qt_call.out.detection
    /\ FGt(Num(ScoreOne), qt_call.out.anomaly_score)

\* C12: simulate_decoherence returns one fidelity per time, each in [0, 1],
\* 1 at t = 0, non-increasing in t, and lower at 1 ms than at 0
FidelityDecays ==
    dc_out # <<>> =>
        LET f == dc_out[1]
            t == dc_in.t_list
        IN  /\ Len(f) = Len(t)
            /\ \A i \in 1..Len(t) :
                  /\ InUnit(f[i])
                  /\ t[i] = 0 => f[i] = Num(ScoreOne)
            /\ \A i \in 1..Len(t), j \in 1..Len(t) :
                  /\ t[i] <= t[j] => f[i].v >= f[j].v
                  /\ (t[i] = 0 /\ t[j] = 10) => f[i].v > f[j].v

\* The sweep 0, 0.5 ms, 1 ms with the default T1 and T2, strictly decreasing
DecoherenceSweep ==
    /\ dc_out # <<>>
    /\ dc_in = [t_list |-> <<0, 5, 10>>, T |-> <<10, 5>>]
    /\ dc_out[1][1].v > dc_out[1][2].v
    /\ dc_out[1][2].v > dc_out[1][3].v

\* The least-squares slope over samples k .. k + w - 1 of the table at hand
WindowSlope(k, w) ==
    LET I == k..(k + w - 1)
        st == SumOver(TableTimes, I)
        se == SumOver(TableErrors, I)
        ste == SumOver([i \in I |-> TableTimes[i] * TableErrors[i]], I)
        stt == SumOver([i \in I |-> TableTimes[i] * TableTimes[i]], I)
    IN  [num |-> w * ste - st * se, den |-> w * stt - st * st]

----------------------------------------------------------------------------
(* utils.hellinger_distance *)

\* C14, as written: hellinger_distance fails with an invalid-input error
\* whenever the two arrays differ in length, for every pair of lengths, one of
\* them 1 included, and returns a value only when the lengths are equal
HellingerRejectsUnequalLengths ==
    hd_out # <<>> =>
        (hd_out[1].raised = "none" <=> hd_in.p.bins = hd_in.q.bins)

\* An array of probabilities that sum to 1
Normalized(a) == ~a.nan /\ SumArray(a.p) = Million

\* C15: for normalized p and q of one length hellinger_distance(p, p) is 0
\* and hellinger_distance(p, q) = hellinger_distance(q, p)
HellingerZeroAndSymmetric ==
    (/\ hd_out # <<>>
     /\ Normalized(hd_in.p)
     /\ Normalized(hd_in.q)
     /\ hd_in.p.bins = hd_in.q.bins) =>
        /\ hd_out[1].raised = "none"
        /\ hd_in.p = hd_in.q => hd_out[1].value = Num(0)
        /\ hellinger_distance(hd_in.q, hd_in.p) = hd_out[1]

\* Two different normalized distributions over two bins, at a distance that
\* is not zero
HellingerOfDifferent ==
    /\ hd_out # <<>>
    /\ Normalized(hd_in.p)
    /\ Normalized(hd_in.q)
    /\ hd_in.p.bins = 2
    /\ hd_in.q.bins = 2
    /\ DOMAIN hd_in.p.p = {1, 2}
    /\ hd_in.p # hd_in.q
    /\ FGt(hd_out[1].value, Num(0))

====
